---- MODULE Spec2Model ----
(***************************************************************************)
(* Model of com-gen.py: taint-trace nodes (TaintTrace), per-finding linear  *)
(* chains (TaintTraceGraph), the module-level loading loop and the greedy   *)
(* clustering loop, and the mermaid rendering of every kept graph.          *)
(*                                                                          *)
(* Text is a sequence of one-character strings.  A TaintTrace object is an  *)
(* index into heap; a list of nodes is a sequence of such indices, so two   *)
(* distinct objects with equal (offset, context) stay distinct objects.     *)
(***************************************************************************)
EXTENDS Integers, Sequences, FiniteSets, TLC

VARIABLES contents, data, pc, error, ri, heap, results, keys,
          ki, gi, hi, final, seen, fi, out

vars == <<contents, data, pc, error, ri, heap, results, keys,
          ki, gi, hi, final, seen, fi, out>>

(***************************************************************************)
(* Bounds of the explored inputs.                                           *)
(***************************************************************************)
MaxText == 2
MaxSources == 3
MaxIntermediates == 2
MaxFindings == 2

SeqsUpTo(S, n) == UNION {[1..k -> S] : k \in 0..n}

Range(s) == {s[i] : i \in 1..Len(s)}

(***************************************************************************)
(* Text helpers: Python slicing and str.replace of a single character.      *)
(***************************************************************************)
Min(a, b) == IF a < b THEN a ELSE b

\* file_contents[start:end] for non-negative offsets
Slice(text, start, end) ==
    IF start >= Min(end, Len(text)) THEN <<>>
    ELSE SubSeq(text, start + 1, Min(end, Len(text)))

RECURSIVE Replace(_, _, _)
\* s.replace(c, r) for a one-character pattern c
Replace(s, c, r) ==
    IF s = <<>> THEN <<>>
    ELSE (IF Head(s) = c THEN r ELSE <<Head(s)>>) \o Replace(Tail(s), c, r)

\* TaintTrace.context: the escaped display text, replacements in code order
Context(n) ==
    Replace(Replace(Replace(Replace(Replace(n._context,
        "\"", <<"#", "q", "u", "o", "t", ";">>),
        "'", <<"#", "a", "p", "o", "s", ";">>),
        "<", <<"&", "l", "t", ";">>),
        ">", <<"&", "g", "t", ";">>),
        "\n", <<"<", "b", "r", ">">>)

(***************************************************************************)
(* TaintTrace                                                               *)
(***************************************************************************)
\* TaintTrace.__init__ on a span whose 'context' associate_info has filled in
TaintTrace(trace) ==
    [offset |-> trace.start, _context |-> trace.context, next_traces |-> {}]

\* TaintTrace.__hash__: hash((offset, context)); the tuple stands for its hash,
\* so equal tuples have equal hashes and nothing more is assumed
Hash(n) == <<n.offset, Context(n)>>

EqOffsetOnly(a, b) == a.offset = b.offset

\* TaintTrace.__eq__
Eq(a, b) == a.offset = b.offset /\ Context(a) = Context(b)

LtDescending(a, b) == a.offset > b.offset

\* TaintTrace.__lt__
Lt(a, b) == a.offset < b.offset

\* TaintTrace.set_next_traces
SetNextTraces(h, id, next) == [h EXCEPT ![id].next_traces = next]

\* TaintTrace.mermaid_node_name
MermaidNodeName(n) == <<Hash(n), Context(n)>>

\* TaintTrace.to_mermaid_node: one edge per element of next_traces
ToMermaidNode(h, id) == {<<Hash(h[id]), Hash(h[t])>> : t \in h[id].next_traces}

(***************************************************************************)
(* associate_info, format_source                                            *)
(***************************************************************************)
\* the objects list(map(TaintTrace, ranges)) creates, one per span
NewTraces(ranges, text) ==
    [i \in 1..Len(ranges) |->
        TaintTrace([start |-> ranges[i].start,
                    context |-> Slice(text, ranges[i].start, ranges[i].end)])]

\* a registry variant: a span equal to an existing node yields that node again
AssociateInfoInterned(h, ranges, text) ==
    LET h2 == h \o NewTraces(ranges, text)
        first(id) == CHOOSE j \in 1..id :
                        /\ Eq(h2[j], h2[id])
                        /\ \A k \in 1..(j - 1) : ~Eq(h2[k], h2[id])
        all == [i \in 1..Len(ranges) |-> first(Len(h) + i)]
    IN  [heap |-> h2,
         ids |-> SelectSeq(all, LAMBDA id : Context(h2[id]) # <<".">>)]

\* associate_info: fill in each span's context, wrap it in a fresh TaintTrace,
\* drop the nodes whose context is "."
AssociateInfo(h, ranges, text) ==
    LET h2 == h \o NewTraces(ranges, text)
        all == [i \in 1..Len(ranges) |-> Len(h) + i]
    IN  [heap |-> h2,
         ids |-> SelectSeq(all, LAMBDA id : Context(h2[id]) # <<".">>)]

\* format_source: sources, intermediates, then the finding itself as the sink
FormatSource(h, dataflow, text) ==
    LET s == AssociateInfo(h, dataflow.taint_source, text)
        i == AssociateInfo(s.heap, dataflow.intermediate_vars, text)
        e == AssociateInfo(i.heap,
                 <<[start |-> dataflow.start, end |-> dataflow.end]>>, text)
    IN  [heap |-> e.heap, sources |-> s.ids, intermediates |-> i.ids,
         sinks |-> e.ids]

(***************************************************************************)
(* TaintTraceGraph                                                          *)
(***************************************************************************)
\* insert id after every element that is not greater (keeps equal keys in order)
InsertSorted(h, s, id) ==
    LET before == {i \in 1..Len(s) : Lt(h[id], h[s[i]])}
        pos == IF before = {} THEN Len(s) + 1
               ELSE CHOOSE i \in before : \A j \in before : i <= j
    IN  SubSeq(s, 1, pos - 1) \o <<id>> \o SubSeq(s, pos, Len(s))

RECURSIVE Sorted(_, _)
\* sorted(list): a stable sort that compares with __lt__ only
Sorted(h, s) ==
    IF s = <<>> THEN <<>>
    ELSE InsertSorted(h, Sorted(h, SubSeq(s, 1, Len(s) - 1)), s[Len(s)])

RECURSIVE Chain(_, _, _)
\* for i in range(len(l) - 1): l[i].set_next_traces([l[i + 1]]), from index i
Chain(h, l, i) ==
    IF i >= Len(l) THEN h
    ELSE Chain(SetNextTraces(h, l[i], {l[i + 1]}), l, i + 1)

\* the constructor without the link from the last intermediate to the sink
GraphInitNoSinkLink(h, srcs, mids, snks) ==
    LET sources == Sorted(h, srcs)
        intermediates == Sorted(h, mids)
        sinks == Sorted(h, snks)
        h1 == Chain(h, sources, 1)
        failed(hp) == [ok |-> FALSE, heap |-> hp,
                       graph |-> [sources |-> <<>>, intermediates |-> <<>>,
                                  sinks |-> <<>>]]
    IN  IF sources = <<>> THEN failed(h1)
        ELSE IF intermediates = <<>> /\ sinks = <<>> THEN failed(h1)
        ELSE
          LET h2 == SetNextTraces(h1, sources[Len(sources)],
                       {IF Len(intermediates) > 0 THEN intermediates[1]
                                                  ELSE sinks[1]})
              h3 == Chain(h2, intermediates, 1)
          IN  [ok |-> TRUE, heap |-> h3,
               graph |-> [sources |-> sources,
                          intermediates |-> intermediates,
                          sinks |-> sinks]]

\* TaintTraceGraph.__init__; ok is FALSE when an index raises IndexError, and
\* heap then holds the assignments made before the raise
GraphInit(h, srcs, mids, snks) ==
    LET sources == Sorted(h, srcs)
        intermediates == Sorted(h, mids)
        sinks == Sorted(h, snks)
        h1 == Chain(h, sources, 1)
        failed(hp) == [ok |-> FALSE, heap |-> hp,
                       graph |-> [sources |-> <<>>, intermediates |-> <<>>,
                                  sinks |-> <<>>]]
    IN  IF sources = <<>> THEN failed(h1)
        ELSE IF intermediates = <<>> /\ sinks = <<>> THEN failed(h1)
        ELSE
          LET h2 == SetNextTraces(h1, sources[Len(sources)],
                       {IF Len(intermediates) > 0 THEN intermediates[1]
                                                  ELSE sinks[1]})
              h3 == Chain(h2, intermediates, 1)
          IN  IF Len(intermediates) > 0 /\ sinks = <<>> THEN failed(h3)
              ELSE
                LET h4 == IF Len(intermediates) > 0
                          THEN SetNextTraces(h3,
                                   intermediates[Len(intermediates)],
                                   {sinks[1]})
                          ELSE h3
                IN  [ok |-> TRUE, heap |-> h4,
                     graph |-> [sources |-> sources,
                                intermediates |-> intermediates,
                                sinks |-> sinks]]

\* set(a).intersection(b): membership is by __hash__ and __eq__
Overlap(h, a, b) ==
    \E i \in 1..Len(a), j \in 1..Len(b) : Eq(h[a[i]], h[b[j]])

First(l) == IF l = <<>> THEN <<>> ELSE <<l[1]>>

\* an intersection test that looks at the first node of each of g's lists only
IntersectsHeadOnly(h, g, o) ==
    \/ Overlap(h, First(g.sources), o.sources)
    \/ Overlap(h, First(g.intermediates), o.intermediates)
    \/ Overlap(h, First(g.sinks), o.sinks)

\* TaintTraceGraph.intersects
Intersects(h, g, o) ==
    \/ Overlap(h, g.sources, o.sources)
    \/ Overlap(h, g.intermediates, o.intermediates)
    \/ Overlap(h, g.sinks, o.sinks)

\* a merge that leaves the absorbing graph as it was
UpdateKeepsOwn(g, o) == g

\* a merge that forgets the absorbed graph's intermediates
UpdateNoIntermediates(g, o) ==
    [sources |-> g.sources \o o.sources,
     intermediates |-> g.intermediates,
     sinks |-> g.sinks \o o.sinks]

\* TaintTraceGraph.update
Update(g, o) ==
    [sources |-> g.sources \o o.sources,
     intermediates |-> g.intermediates \o o.intermediates,
     sinks |-> g.sinks \o o.sinks]

\* TaintTraceGraph.to_graph: the name sets of the three roles and the edge set
ToGraph(h, g) ==
    [sources |-> {MermaidNodeName(h[g.sources[i]]) : i \in 1..Len(g.sources)},
     intermediates |-> {MermaidNodeName(h[g.intermediates[i]]) :
                            i \in 1..Len(g.intermediates)},
     sinks |-> {MermaidNodeName(h[g.sinks[i]]) : i \in 1..Len(g.sinks)},
     links |-> UNION {ToMermaidNode(h, id) :
                  id \in Range(g.sources) \cup Range(g.intermediates)
                         \cup Range(g.sinks)}]

(***************************************************************************)
(* Inputs: the text of code.py and the findings of out.json.  A span keeps  *)
(* the start and end offsets; line and column are carried by the program    *)
(* but never read by the modelled code.                                     *)
(***************************************************************************)
CheckIds == {"r1", "r2"}

Span(s, e) == [start |-> s, end |-> e]

Finding(id, srcs, mids, s, e) ==
    [check_id |-> id, traced |-> TRUE, taint_source |-> srcs,
     intermediate_vars |-> mids, start |-> s, end |-> e]

\* a result without extra.dataflow_trace
Untraced == [check_id |-> "r1", traced |-> FALSE, taint_source |-> <<>>,
             intermediate_vars |-> <<>>, start |-> 0, end |-> 1]

Alphabet == {"<", "\n", "."}

\* texts that already look like escaped entities
Lookalikes == {<<"&", "l", "t", ";">>, <<"<", "b", "r", ">">>}

Code0 == <<"a", "<", ".", "b">>

SpanA == Span(0, 1)
SpanS == Span(1, 2)
SpanDot == Span(2, 3)
SpanT == Span(3, 4)
SpanM == Span(0, 2)

Start(pcv, text, findings) ==
    /\ contents = text
    /\ data = findings
    /\ pc = pcv
    /\ error = "none"
    /\ ri = 1
    /\ heap = <<>>
    /\ results = [c \in CheckIds |-> <<>>]
    /\ keys = <<>>
    /\ ki = 1
    /\ gi = 1
    /\ hi = 1
    /\ final = <<>>
    /\ seen = <<>>
    /\ fi = 1
    /\ out = <<>>

\* one finding with one source span, over every short text and every offset
InitText ==
    \E text \in SeqsUpTo(Alphabet, MaxText) \cup Lookalikes :
      \E s1, e1, s2, e2 \in 0..(Len(text) + 1) :
        Start("load", text, <<Finding("r1", <<Span(s1, e1)>>, <<>>, s2, e2)>>)

ChainSpans == {SpanA, SpanS, SpanDot}

\* one finding with up to MaxSources sources and MaxIntermediates intermediates
InitChain ==
    \E srcs \in SeqsUpTo(ChainSpans, MaxSources),
       mids \in SeqsUpTo(ChainSpans, MaxIntermediates),
       snk \in ChainSpans :
        Start("load", Code0, <<Finding("r1", srcs, mids, snk.start, snk.end)>>)

Shapes ==
    {Finding("r1", <<src>>, mids, snk.start, snk.end) :
        src \in {SpanA, SpanS}, mids \in {<<>>, <<SpanM>>}, snk \in {SpanS, SpanT}}

BatchFindings ==
    {[f EXCEPT !.check_id = c] : f \in Shapes, c \in CheckIds}
    \cup {Finding(c, <<>>, <<>>, 1, 2) : c \in CheckIds}
    \cup {Untraced}

\* up to MaxFindings findings of two finding types
InitBatch ==
    \E findings \in SeqsUpTo(BatchFindings, MaxFindings) :
        Start("load", Code0, findings)

Perms3 == {p \in [1..3 -> 1..3] : \A i, j \in 1..3 : p[i] = p[j] => i = j}

\* three findings under one type, and the same three under a second type in
\* another order
InitOrders ==
    \E t \in [1..3 -> Shapes], p \in Perms3 :
        Start("load", Code0,
              t \o [i \in 1..3 |-> [t[p[i]] EXCEPT !.check_id = "r2"]])

Init == InitText \/ InitChain \/ InitBatch \/ InitOrders

(***************************************************************************)
(* The loading loop (module level, lines 185-195)                           *)
(***************************************************************************)
Built == LET r == data[ri]
             fs == FormatSource(heap, r, contents)
         IN  GraphInit(fs.heap, fs.sources, fs.intermediates, fs.sinks)

WithKey(ks, k) == IF k \in Range(ks) THEN ks ELSE Append(ks, k)

\* a result without a dataflow trace is passed over
SkipFinding ==
    /\ pc = "load" /\ ri <= Len(data)
    /\ ~data[ri].traced
    /\ ri' = ri + 1
    /\ UNCHANGED <<contents, data, pc, error, heap, results, keys,
                   ki, gi, hi, final, seen, fi, out>>

\* format_source and TaintTraceGraph(...) succeed: the graph joins its group
LoadFinding ==
    /\ pc = "load" /\ ri <= Len(data)
    /\ data[ri].traced
    /\ Built.ok
    /\ heap' = Built.heap
    /\ keys' = WithKey(keys, data[ri].check_id)
    /\ results' = [results EXCEPT ![data[ri].check_id] = Append(@, Built.graph)]
    /\ ri' = ri + 1
    /\ UNCHANGED <<contents, data, pc, error, ki, gi, hi, final, seen, fi, out>>

\* the constructor indexes an empty list: IndexError leaves the with block and
\* ends the script
LoadCrash ==
    /\ pc = "load" /\ ri <= Len(data)
    /\ data[ri].traced
    /\ ~Built.ok
    /\ heap' = Built.heap
    /\ keys' = WithKey(keys, data[ri].check_id)
    /\ pc' = "crashed"
    /\ error' = "IndexError"
    /\ UNCHANGED <<contents, data, ri, results, ki, gi, hi, final, seen, fi, out>>

EndLoad ==
    /\ pc = "load" /\ ri > Len(data)
    /\ pc' = "groups"
    /\ ki' = 1
    /\ UNCHANGED <<contents, data, error, ri, heap, results, keys,
                   gi, hi, final, seen, fi, out>>

(***************************************************************************)
(* The clustering loop (module level, lines 197-216).  A graph object is    *)
(* its position in results[res]; final and seen hold such positions.        *)
(***************************************************************************)
Res == keys[ki]

Group == results[Res]

\* for res in results: final = []; seen = []
NextGroup ==
    /\ pc = "groups" /\ ki <= Len(keys)
    /\ final' = <<>>
    /\ seen' = <<>>
    /\ gi' = 1
    /\ pc' = "outer"
    /\ UNCHANGED <<contents, data, error, ri, heap, results, keys, ki, hi, fi, out>>

\* the loop over results is exhausted: the script ends
Finish ==
    /\ pc = "groups" /\ ki > Len(keys)
    /\ pc' = "done"
    /\ UNCHANGED <<contents, data, error, ri, heap, results, keys,
                   ki, gi, hi, final, seen, fi, out>>

\* if g in seen: continue
OuterSkip ==
    /\ pc = "outer" /\ gi <= Len(Group)
    /\ gi \in Range(seen)
    /\ gi' = gi + 1
    /\ UNCHANGED <<contents, data, pc, error, ri, heap, results, keys,
                   ki, hi, final, seen, fi, out>>

\* g is not in seen: start the inner loop over results[res]
OuterEnter ==
    /\ pc = "outer" /\ gi <= Len(Group)
    /\ gi \notin Range(seen)
    /\ hi' = 1
    /\ pc' = "inner"
    /\ UNCHANGED <<contents, data, error, ri, heap, results, keys,
                   ki, gi, final, seen, fi, out>>

\* if h in seen: continue
InnerSkipSeen ==
    /\ pc = "inner" /\ hi <= Len(Group)
    /\ hi \in Range(seen)
    /\ hi' = hi + 1
    /\ UNCHANGED <<contents, data, pc, error, ri, heap, results, keys,
                   ki, gi, final, seen, fi, out>>

\* if g == h: continue (TaintTraceGraph defines no __eq__: object identity)
InnerSkipSelf ==
    /\ pc = "inner" /\ hi <= Len(Group)
    /\ hi \notin Range(seen)
    /\ gi = hi
    /\ hi' = hi + 1
    /\ UNCHANGED <<contents, data, pc, error, ri, heap, results, keys,
                   ki, gi, final, seen, fi, out>>

\* g.intersects(h) is false
InnerDisjoint ==
    /\ pc = "inner" /\ hi <= Len(Group)
    /\ hi \notin Range(seen)
    /\ gi # hi
    /\ ~Intersects(heap, Group[gi], Group[hi])
    /\ hi' = hi + 1
    /\ UNCHANGED <<contents, data, pc, error, ri, heap, results, keys,
                   ki, gi, final, seen, fi, out>>

\* g.intersects(h): g.update(h); seen.append(h)
InnerMerge ==
    /\ pc = "inner" /\ hi <= Len(Group)
    /\ hi \notin Range(seen)
    /\ gi # hi
    /\ Intersects(heap, Group[gi], Group[hi])
    /\ results' = [results EXCEPT ![Res][gi] = Update(@, Group[hi])]
    /\ seen' = Append(seen, hi)
    /\ hi' = hi + 1
    /\ UNCHANGED <<contents, data, pc, error, ri, heap, keys,
                   ki, gi, final, fi, out>>

\* the inner loop is exhausted: final.append(g)
InnerExit ==
    /\ pc = "inner" /\ hi > Len(Group)
    /\ final' = Append(final, gi)
    /\ gi' = gi + 1
    /\ pc' = "outer"
    /\ UNCHANGED <<contents, data, error, ri, heap, results, keys,
                   ki, hi, seen, fi, out>>

\* the outer loop is exhausted: print(final, len(final))
PrintFinal ==
    /\ pc = "outer" /\ gi > Len(Group)
    /\ out' = Append(out, [kind |-> "final", res |-> Res,
                           final |-> [i \in 1..Len(final) |-> Group[final[i]]],
                           count |-> Len(final)])
    /\ fi' = 1
    /\ pc' = "render"
    /\ UNCHANGED <<contents, data, error, ri, heap, results, keys,
                   ki, gi, hi, final, seen>>

\* for f in final: print(f.to_graph())
RenderGraph ==
    /\ pc = "render" /\ fi <= Len(final)
    /\ out' = Append(out, [kind |-> "graph", res |-> Res,
                           graph |-> ToGraph(heap, Group[final[fi]])])
    /\ fi' = fi + 1
    /\ UNCHANGED <<contents, data, pc, error, ri, heap, results, keys,
                   ki, gi, hi, final, seen>>

\* every graph of final is printed: on to the next finding type
EndRender ==
    /\ pc = "render" /\ fi > Len(final)
    /\ ki' = ki + 1
    /\ pc' = "groups"
    /\ UNCHANGED <<contents, data, error, ri, heap, results, keys,
                   gi, hi, final, seen, fi, out>>

Next ==
    \/ SkipFinding
    \/ LoadFinding
    \/ LoadCrash
    \/ EndLoad
    \/ NextGroup
    \/ Finish
    \/ OuterSkip
    \/ OuterEnter
    \/ InnerSkipSeen
    \/ InnerSkipSelf
    \/ InnerDisjoint
    \/ InnerMerge
    \/ InnerExit
    \/ PrintFinal
    \/ RenderGraph
    \/ EndRender

Spec == Init /\ [][Next]_vars

(***************************************************************************)
(* Vocabulary of the properties.  The graphs of a group, as constructed,    *)
(* are described from the input, so that they can be compared with what     *)
(* the clustering loop has made of them.                                    *)
(***************************************************************************)
\* the nodes a span list yields, as values
Kept(ranges) ==
    SelectSeq(NewTraces(ranges, contents), LAMBDA n : Context(n) # <<".">>)

ShareNode(a, b) == \E i \in 1..Len(a), j \in 1..Len(b) : Eq(a[i], b[j])

SinkOf(r) == Kept(<<Span(r.start, r.end)>>)

\* two findings share a node, role by role
FindingsIntersect(r1, r2) ==
    \/ ShareNode(Kept(r1.taint_source), Kept(r2.taint_source))
    \/ ShareNode(Kept(r1.intermediate_vars), Kept(r2.intermediate_vars))
    \/ ShareNode(SinkOf(r1), SinkOf(r2))

\* the findings whose graphs make up results[c], in order
TracedOf(c) == SelectSeq(data, LAMBDA r : r.traced /\ r.check_id = c)

Origin(i) == TracedOf(Res)[i]

RECURSIVE Reach(_)
\* the graphs of the current group connected to some graph of S
Reach(S) ==
    LET T == S \cup {j \in 1..Len(Group) :
                        \E i \in S : FindingsIntersect(Origin(i), Origin(j))}
    IN  IF T = S THEN S ELSE Reach(T)

Connected(i, j) == j \in Reach({i})

\* the nodes graph j was constructed with are in the lists of graph f
Folded(j, f) == Group[j].sinks[1] \in Range(Group[f].sinks)

Graphs == UNION {Range(results[c]) : c \in CheckIds}

RECURSIVE SumSucc(_)
SumSucc(l) ==
    IF l = <<>> THEN 0
    ELSE Cardinality(ToMermaidNode(heap, Head(l))) + SumSucc(Tail(l))

\* the successor edges of all nodes of g
EdgeCount(g) == SumSucc(g.sources \o g.intermediates \o g.sinks)

SortedByOffset(l) ==
    \A i \in 1..(Len(l) - 1) : heap[l[i]].offset <= heap[l[i + 1]].offset

Chained(l) ==
    \A i \in 1..(Len(l) - 1) : heap[l[i]].next_traces = {l[i + 1]}

(***************************************************************************)
(* Nodes and construction                                                   *)
(***************************************************************************)
\* C3: while the findings are being loaded, every constructed graph has
\* len(sources) + len(intermediates) + len(sinks) - 1 successor edges over
\* all its nodes.
C3_EdgeCount ==
    pc = "load" =>
        \A g \in Graphs :
            EdgeCount(g) =
                Len(g.sources) + Len(g.intermediates) + Len(g.sinks) - 1

C3_Witness ==
    /\ pc = "load"
    /\ \E g \in Graphs : Len(g.sources) >= 2 /\ Len(g.intermediates) >= 2

\* C4: two nodes are equal exactly when their offsets are equal and the raw
\* texts their spans cover are equal, and equal nodes have equal hash keys.
\* Nodes are created by the loading loop only, so every set of nodes the
\* program ever holds is seen in a state of that loop.
C4_EqualityIsOffsetAndRawText ==
    pc \in {"load", "crashed"} =>
        \A n, m \in 1..Len(heap) :
            /\ Eq(heap[n], heap[m]) <=>
                  (/\ heap[n].offset = heap[m].offset
                   /\ heap[n]._context = heap[m]._context)
            /\ Eq(heap[n], heap[m]) => Hash(heap[n]) = Hash(heap[m])

HasEscaped(n) == Context(n) # n._context

C4_Witness ==
    /\ pc = "load"
    /\ \E n, m \in 1..Len(heap) :
        /\ n # m
        /\ heap[n].offset = heap[m].offset
        /\ HasEscaped(heap[n])
        /\ heap[n]._context # heap[m]._context
        /\ ~Eq(heap[n], heap[m])
        /\ \E k \in 1..Len(heap) :
              k # n /\ HasEscaped(heap[k]) /\ Eq(heap[k], heap[n])

\* C6: while the findings are being loaded, every constructed graph has its
\* three lists sorted ascending by offset and is one path: each source leads
\* to the next source only, the last source to the first intermediate or,
\* without intermediates, to the first sink, each intermediate to the next
\* intermediate only, and the last intermediate to the first sink.
C6_SortedLinearPath ==
    pc = "load" =>
        \A g \in Graphs :
            (g.sources # <<>> /\ g.sinks # <<>>) =>
                /\ SortedByOffset(g.sources)
                /\ SortedByOffset(g.intermediates)
                /\ SortedByOffset(g.sinks)
                /\ Chained(g.sources)
                /\ Chained(g.intermediates)
                /\ heap[g.sources[Len(g.sources)]].next_traces =
                       {IF g.intermediates # <<>> THEN g.intermediates[1]
                                                  ELSE g.sinks[1]}
                /\ g.intermediates # <<>> =>
                       heap[g.intermediates[Len(g.intermediates)]].next_traces
                           = {g.sinks[1]}

C6_Witness ==
    /\ pc = "load"
    /\ ri = 2
    /\ Len(data[1].taint_source) >= 2
    /\ data[1].taint_source[1].start > data[1].taint_source[2].start
    /\ \E g \in Graphs :
          /\ Len(g.sources) >= 2
          /\ heap[g.sources[1]].offset < heap[g.sources[2]].offset
          /\ g.intermediates # <<>>

\* C10: in every step of a run, every existing node keeps all the
\* successors it has: a successor set is never shrunk or replaced by a
\* set that lacks one of its elements.
C10_SuccessorsOnlyGrow ==
    [][\A n \in 1..Len(heap) :
          /\ n <= Len(heap')
          /\ heap[n].next_traces \subseteq heap'[n].next_traces]_vars

C10_Witness ==
    /\ pc = "done"
    /\ Len(out) >= 2
    /\ \E c \in CheckIds : Len(results[c]) >= 2
    /\ \E n, m \in 1..Len(heap) :
          /\ n # m
          /\ Eq(heap[n], heap[m])
          /\ heap[n].next_traces # {}
          /\ heap[m].next_traces # {}
          /\ heap[n].next_traces # heap[m].next_traces

(***************************************************************************)
(* Loading failures                                                         *)
(***************************************************************************)
NoSourceNodes(r) == Kept(r.taint_source) = <<>>

\* C5: a traced finding without source nodes, once the loading loop has
\* taken it up, has raised a dedicated error and not an IndexError, and the
\* run goes on with the other findings.
C5_EmptySourcesIsolated ==
    \A i \in 1..Len(data) :
        (/\ data[i].traced
         /\ NoSourceNodes(data[i])
         /\ (ri > i \/ (ri = i /\ pc # "load"))) =>
            /\ error = "EmptyChainViolation"
            /\ pc # "crashed"

(***************************************************************************)
(* Clustering                                                               *)
(***************************************************************************)
\* C1: when the clustering of a group has ended, two graphs of the group are
\* folded into a common final graph exactly when a chain of intersecting
\* graphs connects them, and no two final graphs intersect.
C1_FinalIsComponents ==
    pc = "render" =>
        /\ \A i, j \in 1..Len(Group) :
              Connected(i, j) <=>
                  \E f \in Range(final) : Folded(i, f) /\ Folded(j, f)
        /\ \A f1, f2 \in Range(final) :
              f1 # f2 => ~Intersects(heap, Group[f1], Group[f2])

\* C2: when the clustering of a group has ended, every graph of the group is
\* either in final or in seen, never both, and its nodes are folded into
\* exactly one final graph.
C2_KeptXorAbsorbed ==
    pc = "render" =>
        \A i \in 1..Len(Group) :
            /\ (i \in Range(final)) # (i \in Range(seen))
            /\ Cardinality({f \in Range(final) : Folded(i, f)}) = 1

\* the length print(final, len(final)) has shown for a finding type
FinalCount(id) ==
    LET i == CHOOSE i \in 1..Len(out) : out[i].kind = "final" /\ out[i].res = id
    IN  out[i].count

\* C7: a group of exactly two graphs with equal sinks ends as one final
\* graph, whose lists are the first graph's lists followed by the second's,
\* the sinks list holding the shared sink twice.
C7_TwoGraphsOneSink ==
    (/\ pc = "render"
     /\ Len(Group) = 2
     /\ Eq(heap[Group[1].sinks[1]], heap[Group[2].sinks[1]])) =>
        /\ final = <<1>>
        /\ FinalCount(Res) = 1
        /\ Len(Group[1].sinks) = 2
        /\ Eq(heap[Group[1].sinks[1]], heap[Group[1].sinks[2]])
        /\ LET own(l, n) == SubSeq(l, 1, n)
               n1 == Len(Kept(Origin(1).taint_source))
               n2 == Len(Kept(Origin(1).intermediate_vars))
           IN  /\ Group[1].sources =
                      own(Group[1].sources, n1) \o Group[2].sources
               /\ Len(Group[1].sources) = n1 + Len(Group[2].sources)
               /\ Group[1].intermediates =
                      own(Group[1].intermediates, n2) \o Group[2].intermediates
               /\ Len(Group[1].intermediates) =
                      n2 + Len(Group[2].intermediates)
               /\ Group[1].sinks = own(Group[1].sinks, 1) \o Group[2].sinks

C7_Witness ==
    /\ pc = "render"
    /\ Len(Group) = 2
    /\ Eq(heap[Group[1].sinks[1]], heap[Group[2].sinks[1]])
    /\ Group[2].intermediates # <<>>
    /\ ~ShareNode(Kept(Origin(1).taint_source), Kept(Origin(2).taint_source))
    /\ Origin(1).intermediate_vars = <<>>

\* g has absorbed h, and the later graph k shares a node with h as
\* constructed but none with g as constructed; the inner loop is past k
ViaAbsorbed(h, k) ==
    /\ h # gi /\ k # gi /\ h < k /\ k < hi
    /\ Folded(h, gi)
    /\ FindingsIntersect(Origin(h), Origin(k))
    /\ ~FindingsIntersect(Origin(gi), Origin(k))

\* C8 as stated: such a k is not merged into g in that sweep.
C8_NotRechecked ==
    pc = "inner" =>
        \A h, k \in 1..Len(Group) : ViaAbsorbed(h, k) => ~Folded(k, gi)

\* C8 amended: such a k is absorbed, and into g in that sweep unless an
\* earlier sweep had absorbed it already.
C8_MergedViaAbsorbed ==
    pc = "inner" =>
        \A h, k \in 1..Len(Group) :
            ViaAbsorbed(h, k) =>
                /\ k \in Range(seen)
                /\ Folded(k, gi) \/ \E f \in Range(final) : f # k /\ Folded(k, f)

C8_Witness ==
    /\ pc = "inner"
    /\ final = <<>>
    /\ \E h, k \in 1..Len(Group) : ViaAbsorbed(h, k) /\ Folded(k, gi)

\* A and B share their sink, B and C share a source, A and C share no node
ScenarioC(a, b, c) ==
    /\ ShareNode(SinkOf(a), SinkOf(b))
    /\ ShareNode(Kept(b.taint_source), Kept(c.taint_source))
    /\ ~FindingsIntersect(a, c)

SameBut(r, id) == [r EXCEPT !.check_id = id]

\* the run has clustered A, B, C under one type and A, C, B under the other
TwoOrders ==
    /\ pc = "done"
    /\ Len(data) = 6
    /\ \A i \in 1..3 : data[i].check_id = "r1"
    /\ ScenarioC(data[1], data[2], data[3])
    /\ SubSeq(data, 4, 6) = <<SameBut(data[1], "r2"), SameBut(data[3], "r2"),
                              SameBut(data[2], "r2")>>

\* C9: the order A, B, C ends in one final graph and the order A, C, B of
\* the same three graphs in two.
C9_OrderChangesCount ==
    TwoOrders =>
        /\ FinalCount("r1") = 1
        /\ FinalCount("r2") = 2
        /\ FinalCount("r1") # FinalCount("r2")

C9_Witness == TwoOrders /\ FinalCount("r1") # FinalCount("r2")

====
